---- MODULE Spec2Model ----
(***************************************************************************)
(* The Cell class of src/src/cell.py: one cell of a rectangular maze, with *)
(* its position, its precomputed in-bounds neighbours, its visited flag    *)
(* and its four walls [North, East, South, West].                          *)
(*                                                                         *)
(* Python objects are modelled with their identity: a cell's __walls is a  *)
(* reference into `heap`, because set_walls stores the caller's object and *)
(* get_walls returns the cell's own object.  Python values that may sit in *)
(* a sequence are the strings True, False and None.                        *)
(***************************************************************************)
EXTENDS Integers, Sequences, FiniteSets, TLC

VARIABLES width, height, cells, heap, last

vars == <<width, height, cells, heap, last>>

(***************************************************************************)
(* Bounds of the model.                                                    *)
(***************************************************************************)
MaxDim == 3     \* largest width and height of the maze of a single cell
MaxArea == 4    \* largest width * height of a maze holding several cells
MaxLen == 5     \* longest sequence a caller builds
MaxIndex == 5   \* remove_wall is called with indices in -MaxIndex..MaxIndex

(***************************************************************************)
(* The cell of the doctests of set_walls and remove_wall: Cell(1, 3, 5, 5) *)
(***************************************************************************)
DocRow == 1
DocColumn == 3
DocSize == 5

(***************************************************************************)
(* Python values and exceptions.                                           *)
(***************************************************************************)
True == "True"
False == "False"
None == "None"
PyBool == {True, False}
PyValues == {True, False, None}

NoError == "NoError"
AssertionError == "AssertionError"
IndexError == "IndexError"
TypeError == "TypeError"

NoArg == "NoArg"

\* isinstance(x, bool)
IsBool(x) == x \in PyBool

\* the truth value of x, as `not x` and `if x` take it
Truthy(x) == x = True

Min(S) == CHOOSE m \in S : \A n \in S : m <= n

\* the 1-based position that Python's s[i] denotes in a sequence of n
\* elements, 0 when i is out of range
ListIndex(n, i) ==
    IF 0 <= i /\ i < n THEN i + 1
    ELSE IF -n <= i /\ i < 0 THEN n + i + 1
    ELSE 0

\* x in s, for a list s
InList(x, s) == \E k \in 1..Len(s) : s[k] = x

(***************************************************************************)
(* Cell.__init__                                                           *)
(***************************************************************************)
\* the (y, x) offsets of North, East, South, West
Offsets == << <<-1, 0>>, <<0, 1>>, <<1, 0>>, <<0, -1>> >>

\* a variant that tests the column against the height and the row against
\* the width
InMazeSwapped(row, column, w, h) ==
    (0 <= column /\ column < h) /\ (0 <= row /\ row < w)

\* the condition of the comprehension of __init__
InMaze(row, column, w, h) == (0 <= column /\ column < w) /\ (0 <= row /\ row < h)

\* the list comprehension of __init__
Neighbors(row, column, w, h) ==
    LET all == [k \in 1..4 |-> <<row + Offsets[k][1], column + Offsets[k][2]>>]
        keep(p) == InMaze(p[1], p[2], w, h)
    IN  SelectSeq(all, keep)

\* the list [True, True, True, True] that __init__ creates
FreshWalls == [kind |-> "list", elems |-> <<True, True, True, True>>]

\* the fields of a new cell; ref is the identity of its walls list
NewCell(row, column, w, h, ref) ==
    [row |-> row, col |-> column, neighbors |-> Neighbors(row, column, w, h),
     visited |-> FALSE, walls |-> ref]

Cells == DOMAIN cells

\* the object a cell's __walls refers to
Walls(c) == heap[cells[c].walls]

(***************************************************************************)
(* The getters.                                                            *)
(***************************************************************************)
is_visited(c) == cells[c].visited
get_row(c) == cells[c].row
get_column(c) == cells[c].col
get_neighbors(c) == cells[c].neighbors
get_walls(c) == Walls(c).elems

\* the loop of get_accessible_neighbors: k walks the four offsets, i is the
\* wall index, incremented at every offset
RECURSIVE AccessibleLoop(_, _, _, _)
AccessibleLoop(c, k, i, accessibles) ==
    IF k > 4 THEN accessibles
    ELSE LET p == <<cells[c].row + Offsets[k][1], cells[c].col + Offsets[k][2]>>
             pos == ListIndex(Len(Walls(c).elems), i)
         IN  IF InList(p, cells[c].neighbors)
             THEN IF pos = 0 THEN IndexError
                  ELSE IF ~Truthy(Walls(c).elems[pos])
                       THEN AccessibleLoop(c, k + 1, i + 1, Append(accessibles, p))
                       ELSE AccessibleLoop(c, k + 1, i + 1, accessibles)
             ELSE AccessibleLoop(c, k + 1, i + 1, accessibles)

\* a variant whose wall index advances only at the offsets that are neighbours
RECURSIVE AccessibleLoopPacked(_, _, _, _)
AccessibleLoopPacked(c, k, i, accessibles) ==
    IF k > 4 THEN accessibles
    ELSE LET p == <<cells[c].row + Offsets[k][1], cells[c].col + Offsets[k][2]>>
         IN  IF InList(p, cells[c].neighbors)
             THEN IF ~Truthy(Walls(c).elems[i + 1])
                  THEN AccessibleLoopPacked(c, k + 1, i + 1, Append(accessibles, p))
                  ELSE AccessibleLoopPacked(c, k + 1, i + 1, accessibles)
             ELSE AccessibleLoopPacked(c, k + 1, i, accessibles)

get_accessible_neighbors_packed(c) == AccessibleLoopPacked(c, 1, 0, <<>>)

get_accessible_neighbors(c) == AccessibleLoop(c, 1, 0, <<>>)

(***************************************************************************)
(* Object identities.  The identity of a walls object is named after the   *)
(* first cell that refers to it; an object no cell refers to is dropped.   *)
(***************************************************************************)
Free == [kind |-> "free", elems |-> <<>>]

Owner(cs, c) == Min({d \in DOMAIN cs : cs[d].walls = cs[c].walls})

CanonCells(cs) == [c \in DOMAIN cs |-> [cs[c] EXCEPT !.walls = Owner(cs, c)]]

CanonHeap(cs, hp) ==
    [o \in DOMAIN cs |-> IF Owner(cs, o) = o THEN hp[cs[o].walls] ELSE Free]

Returns(op, c, arg) == [op |-> op, self |-> c, arg |-> arg, raised |-> NoError]
Raises(op, c, arg, e) == [op |-> op, self |-> c, arg |-> arg, raised |-> e]

(***************************************************************************)
(* make_visited, make_unvisited                                            *)
(***************************************************************************)
make_visited(c) ==
    /\ cells' = [cells EXCEPT ![c].visited = TRUE]
    /\ last' = Returns("make_visited", c, NoArg)
    /\ UNCHANGED <<width, height, heap>>

make_unvisited(c) ==
    /\ cells' = [cells EXCEPT ![c].visited = FALSE]
    /\ last' = Returns("make_unvisited", c, NoArg)
    /\ UNCHANGED <<width, height, heap>>

(***************************************************************************)
(* set_walls(l).  The argument is an object of the caller: a sequence the  *)
(* caller has just built (ref 0), or the object get_walls returned for     *)
(* some cell.                                                              *)
(***************************************************************************)
Repeat(v, n) == [k \in 1..n |-> v]

\* the sequences a caller builds: every list of 4 booleans, the sequences
\* of up to MaxLen equal values, and the lists of 4 with one None
CallerElems ==
    [1..4 -> PyBool]
    \cup {Repeat(v, n) : v \in PyValues, n \in 0..MaxLen}
    \cup {[Repeat(b, 4) EXCEPT ![k] = None] : b \in PyBool, k \in 1..4}

CallerBuilt == [kind : {"list", "tuple"}, elems : CallerElems]

\* a variant with any() in place of all()
AnyBool(l) == \E k \in 1..Len(l.elems) : IsBool(l.elems[k])

\* the two assertions of set_walls
LenIs4(l) == Len(l.elems) = 4
AllBool(l) == \A k \in 1..Len(l.elems) : IsBool(l.elems[k])

set_walls(c, ref, l) ==
    /\ ref # 0 => (ref \in Cells /\ cells[ref].walls = ref /\ l = heap[ref])
    /\ IF ~LenIs4(l) \/ ~AllBool(l)
       THEN /\ last' = Raises("set_walls", c, l, AssertionError)
            /\ UNCHANGED <<cells, heap>>
       ELSE LET hp == [o \in {0} \cup Cells |-> IF o = 0 THEN l ELSE heap[o]]
                cs == [cells EXCEPT ![c].walls = ref]
            IN  /\ cells' = CanonCells(cs)
                /\ heap' = CanonHeap(cs, hp)
                /\ last' = Returns("set_walls", c, l)
    /\ UNCHANGED <<width, height>>

(***************************************************************************)
(* remove_wall(i): self.__walls[i] = False                                 *)
(***************************************************************************)
\* the item assignment on the object ref of the heap hp
SetItemFalse(hp, ref, i) ==
    LET w == hp[ref]
        pos == ListIndex(Len(w.elems), i)
    IN  IF w.kind = "tuple" THEN [heap |-> hp, raised |-> TypeError]
        ELSE IF pos = 0 THEN [heap |-> hp, raised |-> IndexError]
        ELSE [heap |-> [hp EXCEPT ![ref].elems[pos] = False], raised |-> NoError]

remove_wall(c, i) ==
    LET r == SetItemFalse(heap, cells[c].walls, i)
    IN  /\ heap' = r.heap
        /\ last' = Raises("remove_wall", c, i, r.raised)
        /\ UNCHANGED <<width, height, cells>>

(***************************************************************************)
(* remove_wall_between_cell(another_cell)                                  *)
(***************************************************************************)
\* a variant that accepts every cell at most one row and one column away
IsNear(c, d) ==
    /\ cells[c].row - cells[d].row \in -1..1
    /\ cells[c].col - cells[d].col \in -1..1

\* the third assertion: another_cell's position is in self.__neighbors
IsNeighbor(c, d) == InList(<<get_row(d), get_column(d)>>, cells[c].neighbors)

\* variants with the signs of the other cell
SelfWallIndexFlipped(col_diff, row_diff) ==
    IF col_diff # 0 THEN 2 - col_diff ELSE 1 + row_diff

OtherWallIndexFlipped(col_diff, row_diff) ==
    IF col_diff # 0 THEN 2 + col_diff ELSE 1 - row_diff

\* the index of the wall removed on self and on another_cell
SelfWallIndex(col_diff, row_diff) ==
    IF col_diff # 0 THEN 2 + col_diff ELSE 1 - row_diff

OtherWallIndex(col_diff, row_diff) ==
    IF col_diff # 0 THEN 2 - col_diff ELSE 1 + row_diff

\* another_cell is drawn from the cells, so isinstance(another_cell, Cell),
\* the first assertion, holds in every call
remove_wall_between_cell(c, d) ==
    /\ IF c = d \/ ~IsNeighbor(c, d)
       THEN /\ last' = Raises("remove_wall_between_cell", c, d, AssertionError)
            /\ UNCHANGED heap
       ELSE LET col_diff == cells[c].col - get_column(d)
                row_diff == cells[c].row - get_row(d)
                r1 == SetItemFalse(heap, cells[c].walls,
                                   SelfWallIndex(col_diff, row_diff))
                r2 == SetItemFalse(r1.heap, cells[d].walls,
                                   OtherWallIndex(col_diff, row_diff))
            IN  IF r1.raised # NoError
                THEN /\ heap' = r1.heap
                     /\ last' = Raises("remove_wall_between_cell", c, d, r1.raised)
                ELSE /\ heap' = r2.heap
                     /\ last' = Raises("remove_wall_between_cell", c, d, r2.raised)
    /\ UNCHANGED <<width, height, cells>>

(***************************************************************************)
(* A caller that keeps the list get_walls returned, or the list it passed  *)
(* to set_walls, and changes it.                                           *)
(***************************************************************************)
caller_append(c, v) ==
    /\ Walls(c).kind = "list"
    /\ Len(Walls(c).elems) < MaxLen
    /\ heap' = [heap EXCEPT ![cells[c].walls].elems = Append(@, v)]
    /\ last' = Returns("caller_append", c, v)
    /\ UNCHANGED <<width, height, cells>>

caller_pop(c) ==
    /\ Walls(c).kind = "list"
    /\ Len(Walls(c).elems) > 0
    /\ heap' = [heap EXCEPT ![cells[c].walls].elems = SubSeq(@, 1, Len(@) - 1)]
    /\ last' = Returns("caller_pop", c, NoArg)
    /\ UNCHANGED <<width, height, cells>>

caller_setitem(c, k, v) ==
    /\ Walls(c).kind = "list"
    /\ k \in 1..Len(Walls(c).elems)
    /\ heap' = [heap EXCEPT ![cells[c].walls].elems[k] = v]
    /\ last' = Returns("caller_setitem", c, <<k - 1, v>>)
    /\ UNCHANGED <<width, height, cells>>

(***************************************************************************)
(* Initial states: the cells as their constructors leave them.             *)
(***************************************************************************)
Positions(w, h) == (0..(h - 1)) \X (0..(w - 1))

Construct(w, h, place) ==
    /\ width = w
    /\ height = h
    /\ cells = [c \in DOMAIN place |-> NewCell(place[c][1], place[c][2], w, h, c)]
    /\ heap = [c \in DOMAIN place |-> FreshWalls]
    /\ last = Returns("__init__", 0, NoArg)

\* the cell of the doctests
InitDoc == Construct(DocSize, DocSize, << <<DocRow, DocColumn>> >>)

\* one cell anywhere in a maze of up to MaxDim x MaxDim
InitCell ==
    \E w \in 1..MaxDim, h \in 1..MaxDim :
        \E p \in Positions(w, h) : Construct(w, h, <<p>>)

\* two cells, each anywhere in the same maze of up to MaxArea positions
InitPair ==
    \E w \in 1..MaxArea, h \in 1..MaxArea :
        /\ w * h <= MaxArea
        /\ \E p \in Positions(w, h), q \in Positions(w, h) : Construct(w, h, <<p, q>>)

\* a whole maze of up to MaxArea positions, one cell per position
InitGrid ==
    \E w \in 1..MaxArea, h \in 1..MaxArea :
        /\ w * h <= MaxArea
        /\ Construct(w, h, [k \in 1..(w * h) |-> <<(k - 1) \div w, (k - 1) % w>>])

(***************************************************************************)
(* Specifications.                                                         *)
(***************************************************************************)
Indices == (-MaxIndex)..MaxIndex

\* what a caller can pass to set_walls: a sequence it builds (identity 0),
\* or the object that get_walls returns for a cell
Built(S) == {<<0, l>> : l \in S}
Held == {<<cells[c].walls, Walls(c)>> : c \in Cells}

\* SpecCell: every operation of the cell of the doctests, with every argument
NextCell ==
    \E c \in Cells :
        \/ make_visited(c)
        \/ make_unvisited(c)
        \/ \E a \in Built(CallerBuilt) \cup Held : set_walls(c, a[1], a[2])
        \/ \E i \in Indices : remove_wall(c, i)

SpecCell == InitDoc /\ [][NextCell]_vars

\* SpecCallers: the same cell, and a caller that changes the lists it holds
NextCallers ==
    \/ NextCell
    \/ \E c \in Cells :
        \/ \E v \in PyValues : caller_append(c, v)
        \/ caller_pop(c)
        \/ \E k \in 1..MaxLen, v \in PyValues : caller_setitem(c, k, v)

SpecCallers == InitDoc /\ [][NextCallers]_vars

\* SpecNeighbors: one cell anywhere in any maze, and the operations that
\* change what get_accessible_neighbors reads (set_walls with the
\* sequences it accepts)
AcceptedBuilt == {l \in CallerBuilt : LenIs4(l) /\ AllBool(l)}

NextNeighbors ==
    \E c \in Cells :
        \/ make_visited(c)
        \/ make_unvisited(c)
        \/ \E a \in Built(AcceptedBuilt) \cup Held : set_walls(c, a[1], a[2])
        \/ \E i \in 0..3 : remove_wall(c, i)

SpecNeighbors == InitCell /\ [][NextNeighbors]_vars

\* Spec: two cells of one maze and remove_wall_between_cell (which calls
\* remove_wall on both).  set_walls takes a list or a tuple of four equal
\* booleans, or the object of a cell (which makes two cells share one
\* object).
UniformBuilt == {l \in CallerBuilt : LenIs4(l) /\ AllBool(l)
                                     /\ \A k \in 1..4 : l.elems[k] = l.elems[1]}

Next ==
    \E c \in Cells :
        \/ \E a \in Built(UniformBuilt) \cup Held : set_walls(c, a[1], a[2])
        \/ \E d \in Cells : remove_wall_between_cell(c, d)

Spec == InitPair /\ [][Next]_vars

\* SpecGrid: a maze of fresh cells, carved with remove_wall_between_cell
NextGrid ==
    \E c \in Cells :
        \/ make_visited(c)
        \/ make_unvisited(c)
        \/ \E d \in Cells : remove_wall_between_cell(c, d)

SpecGrid == InitGrid /\ [][NextGrid]_vars

(***************************************************************************)
(* The geometry the claims speak of, stated without the code's arithmetic. *)
(***************************************************************************)
\* the direction in which position q lies from position p: 0 North,
\* 1 East, 2 South, 3 West, and -1 when q is no orthogonal neighbour of p
Direction(p, q) ==
    CASE q[1] = p[1] - 1 /\ q[2] = p[2] -> 0
      [] q[1] = p[1] /\ q[2] = p[2] + 1 -> 1
      [] q[1] = p[1] + 1 /\ q[2] = p[2] -> 2
      [] q[1] = p[1] /\ q[2] = p[2] - 1 -> 3
      [] OTHER -> -1

Position(c) == <<cells[c].row, cells[c].col>>

\* the index of the wall of cell a that faces cell b
Facing(a, b) == Direction(Position(a), Position(b))

Adjacent(a, b) == Facing(a, b) # -1

\* wall k (0..3) of cell c, as get_walls() shows it
Wall(c, k) == get_walls(c)[k + 1]

Called(op) == last.op = op

(***************************************************************************)
(* C1: after a successful A.remove_wall_between_cell(B), A and B are       *)
(* adjacent, the wall of A that faces B is False and the wall of B that    *)
(* faces A is False (North 0, East 1, South 2, West 3).                    *)
(***************************************************************************)
C1_FacingWallsCleared ==
    (Called("remove_wall_between_cell") /\ last.raised = NoError) =>
        LET a == last.self
            b == last.arg
        IN  /\ Adjacent(a, b)
            /\ Facing(b, a) = (Facing(a, b) + 2) % 4
            /\ Wall(a, Facing(a, b)) = False
            /\ Wall(b, Facing(b, a)) = False

\* a successful call on a cell to the west, which leaves a wall standing
C1_Witness ==
    /\ Called("remove_wall_between_cell") /\ last.raised = NoError
    /\ Facing(last.self, last.arg) = 3
    /\ Wall(last.self, 1) = True
    /\ Wall(last.arg, 3) = True

(***************************************************************************)
(* C2: in a maze of fresh cells carved with remove_wall_between_cell       *)
(* (accepted or rejected calls, with make_visited and make_unvisited in    *)
(* between), whenever the wall of A facing an adjacent B is False, the     *)
(* wall of B facing A is False too.                                        *)
(***************************************************************************)
C2_Symmetry ==
    \A a \in Cells, b \in Cells :
        (Adjacent(a, b) /\ Wall(a, Facing(a, b)) = False)
            => Wall(b, Facing(b, a)) = False

\* a rejected call in a maze where a passage is already open
C2_Witness ==
    /\ Called("remove_wall_between_cell") /\ last.raised = AssertionError
    /\ \E a \in Cells, b \in Cells :
           Adjacent(a, b) /\ Wall(a, Facing(a, b)) = False

(***************************************************************************)
(* C3: a call of A.remove_wall_between_cell(B) changes no wall but the     *)
(* wall of A facing B and the wall of B facing A, and no visited flag,     *)
(* position or neighbour list.                                             *)
(***************************************************************************)
C3_Frame ==
    [][last'.op = "remove_wall_between_cell" =>
          LET a == last'.self
              b == last'.arg
          IN  /\ cells' = cells
              /\ \A c \in Cells, k \in 0..3 :
                    \/ c = a /\ k = Facing(a, b)
                    \/ c = b /\ k = Facing(b, a)
                    \/ heap'[cells[c].walls].elems[k + 1] = Wall(c, k)]_vars

(***************************************************************************)
(* C4: A.remove_wall_between_cell(other) fails when other is A itself and  *)
(* when other's position is not in A's neighbour list, and then no wall    *)
(* of any cell is changed.                                                 *)
(***************************************************************************)
C4_RejectedUnchanged ==
    [][(/\ last'.op = "remove_wall_between_cell"
        /\ \/ last'.self = last'.arg
           \/ \A k \in 1..Len(get_neighbors(last'.self)) :
                  get_neighbors(last'.self)[k] # Position(last'.arg))
       => /\ last'.raised = AssertionError
          /\ heap' = heap
          /\ cells' = cells]_vars

\* a rejected call on another instance that has the caller's own position,
\* made when a wall was already removed
C4_Witness ==
    /\ Called("remove_wall_between_cell") /\ last.raised = AssertionError
    /\ last.self # last.arg
    /\ Position(last.self) = Position(last.arg)
    /\ \E k \in 0..3 : Wall(last.self, k) = False

(***************************************************************************)
(* C5: once other is another instance and is in self's neighbour list,     *)
(* remove_wall_between_cell never fails after it has changed a wall: a     *)
(* call that raises leaves every wall as it was.                           *)
(***************************************************************************)
C5_Atomic ==
    [][(/\ last'.op = "remove_wall_between_cell"
        /\ last'.self # last'.arg
        /\ \E k \in 1..Len(get_neighbors(last'.self)) :
               get_neighbors(last'.self)[k] = Position(last'.arg)
        /\ last'.raised # NoError)
       => heap' = heap]_vars

(***************************************************************************)
(* C6: get_accessible_neighbors() is the sub-sequence of get_neighbors()   *)
(* of the positions whose direction's wall is False, in the order North,   *)
(* East, South, West; it is empty for a fresh cell.                        *)
(***************************************************************************)
OpenNeighbors(c) ==
    LET open(p) == Wall(c, Direction(Position(c), p)) = False
    IN  SelectSeq(get_neighbors(c), open)

C6_Accessible ==
    \A c \in Cells :
        /\ get_accessible_neighbors(c) = OpenNeighbors(c)
        /\ Called("__init__") => get_accessible_neighbors(c) = <<>>

\* a cell on the northern edge, whose list of neighbours starts with East,
\* with an open wall towards a neighbour and a standing one towards another
C6_Witness ==
    \E c \in Cells :
        /\ cells[c].row = 0
        /\ Len(get_neighbors(c)) = 3
        /\ Len(get_accessible_neighbors(c)) = 1
        /\ Wall(c, 0) = True

(***************************************************************************)
(* C7: the neighbour list of a cell built in bounds has at most 4 entries, *)
(* each in the maze and one step away along one axis, in the order North,  *)
(* East, South, West, and every orthogonal neighbour that lies in the maze *)
(* is in it.                                                               *)
(***************************************************************************)
C7_Neighbors ==
    \A c \in Cells :
        LET n == get_neighbors(c)
            here == Position(c)
        IN  /\ Len(n) <= 4
            /\ \A k \in 1..Len(n) :
                  /\ n[k][1] \in 0..(height - 1)
                  /\ n[k][2] \in 0..(width - 1)
                  /\ Direction(here, n[k]) # -1
            /\ \A j \in 1..Len(n), k \in 1..Len(n) :
                  j < k => Direction(here, n[j]) < Direction(here, n[k])
            /\ \A p \in (0..(height - 1)) \X (0..(width - 1)) :
                  Direction(here, p) # -1 => \E k \in 1..Len(n) : n[k] = p

\* a cell with a neighbour on every side, in a maze where it is built
C7_Witness ==
    \E c \in Cells :
        /\ Len(get_neighbors(c)) = 4
        /\ cells[c].row \in 0..(height - 1)
        /\ cells[c].col \in 0..(width - 1)

(***************************************************************************)
(* C8: set_walls(seq) fails when seq has not exactly 4 elements or holds   *)
(* an element that is no boolean, and then the walls and the visited flag  *)
(* are unchanged; with 4 booleans it succeeds and get_walls() equals seq.  *)
(***************************************************************************)
C8_SetWalls ==
    [][last'.op = "set_walls" =>
          LET seq == last'.arg.elems
              c == last'.self
          IN  IF Len(seq) # 4 \/ \E k \in 1..Len(seq) : seq[k] \notin {True, False}
              THEN /\ last'.raised = AssertionError
                   /\ heap' = heap
                   /\ cells' = cells
              ELSE /\ last'.raised = NoError
                   /\ heap'[cells'[c].walls].elems = seq]_vars

\* a rejected sequence of 4 elements, on a cell whose walls were changed
C8_Witness ==
    /\ Called("set_walls") /\ last.raised = AssertionError
    /\ Len(last.arg.elems) = 4
    /\ get_walls(last.self) # <<True, True, True, True>>
    /\ is_visited(last.self)

(***************************************************************************)
(* C9: remove_wall(index) fails for every index outside 0..3, negative     *)
(* ones included, and leaves the walls unchanged then; for an index in     *)
(* 0..3 it sets that wall to False and leaves the other three unchanged.   *)
(***************************************************************************)
C9_RemoveWall ==
    [][last'.op = "remove_wall" =>
          LET i == last'.arg
              c == last'.self
          IN  IF i \notin 0..3
              THEN last'.raised # NoError /\ heap' = heap
              ELSE /\ last'.raised = NoError
                   /\ \A k \in 0..3 :
                         heap'[cells[c].walls].elems[k + 1]
                             = IF k = i THEN False ELSE Wall(c, k)]_vars

(***************************************************************************)
(* C10: the walls of every cell are always a sequence of exactly 4         *)
(* booleans, whatever the callers do with the sequences they passed to     *)
(* set_walls or got from get_walls.                                        *)
(***************************************************************************)
C10_FourBooleans ==
    \A c \in Cells :
        /\ Len(get_walls(c)) = 4
        /\ \A k \in 1..Len(get_walls(c)) : get_walls(c)[k] \in {True, False}

====
